---- MODULE Spec2Model ----
(***************************************************************************)
(* Team assignment server (server.js): an Express application over one     *)
(* SQLite table, users(id, name UNIQUE, team, created_at).                 *)
(*                                                                         *)
(* A server process runs one handler at a time (better-sqlite3 is          *)
(* synchronous, so a handler runs to completion on Node's event loop).     *)
(* Several server processes can be started on the same ./teams.db file     *)
(* (PORT comes from the environment); their handlers interleave at the     *)
(* granularity of one SQL statement, which SQLite executes atomically.     *)
(* POST /api/assign-team issues two statements (SELECT, then INSERT) with  *)
(* no transaction around them, so it is modelled as two steps.             *)
(***************************************************************************)
EXTENDS Integers, Sequences, FiniteSets, TLC

\* ---------------------------------------------------------------- bounds
NumServers == 2
MaxRequests == 3

Servers == 1..NumServers

\* ---------------------------------------------------------- configuration
TEAMS == <<"Red", "Blue", "Green", "Yellow">>

TeamSet == {TEAMS[i] : i \in 1..Len(TEAMS)}

TEAM_COLORS ==
  [t \in TeamSet |->
     CASE t = "Red" -> "#FF5252"
       [] t = "Blue" -> "#2196F3"
       [] t = "Green" -> "#4CAF50"
       [] t = "Yellow" -> "#FFEB3B"]

TEAM_EMOJIS ==
  [t \in TeamSet |->
     CASE t = "Red" -> "red-circle"
       [] t = "Blue" -> "blue-circle"
       [] t = "Green" -> "green-circle"
       [] t = "Yellow" -> "yellow-circle"]

\* TEAMS[i] of JavaScript (indices from 0): undefined outside the array.
TeamAt(i) == IF i \in 0..(Len(TEAMS) - 1) THEN TEAMS[i + 1] ELSE "undefined"

\* Mutant of RandomIndexes: Math.round instead of Math.floor.
RandomIndexesRound == 0..Len(TEAMS)

\* The values of Math.floor(Math.random() * TEAMS.length), Math.random()
\* being in [0, 1).
RandomIndexes == 0..(Len(TEAMS) - 1)

\* obj[key] of JavaScript: the value, or undefined when the key is absent.
Lookup(obj, key) == IF key \in DOMAIN obj THEN obj[key] ELSE "undefined"

\* ------------------------------------------------------------ request body
\* Strings are sequences of characters; " " is the whitespace character.
Names ==
  { <<>>, <<" ">>, <<"a">>, <<" ", "a", " ">>, <<"A">> }

\* req.body.name: absent, a string, or a truthy non-string (a number).
Inputs ==
  {[type |-> "undefined", str |-> <<>>], [type |-> "number", str |-> <<>>]}
    \cup {[type |-> "string", str |-> n] : n \in Names}

IsSpace(c) == c = " "

RECURSIVE TrimStart(_)
TrimStart(s) ==
  IF s # <<>> /\ IsSpace(Head(s)) THEN TrimStart(Tail(s)) ELSE s

RECURSIVE TrimEnd(_)
TrimEnd(s) ==
  IF s # <<>> /\ IsSpace(s[Len(s)]) THEN TrimEnd(SubSeq(s, 1, Len(s) - 1)) ELSE s

\* Mutant of Trim: name.trimEnd().
TrimEndOnly(s) == TrimEnd(s)

\* String.prototype.trim
Trim(s) == TrimEnd(TrimStart(s))

\* Mutant of NameMissing: if (!name), without the trim test.
NameMissingNoTrim(input) ==
  \/ input.type = "undefined"
  \/ input.type = "string" /\ input.str = <<>>

\* !name || name.trim() === ''   (for an absent or string name)
NameMissing(input) ==
  \/ input.type = "undefined"
  \/ input.type = "string" /\ (input.str = <<>> \/ Trim(input.str) = <<>>)

\* ---------------------------------------------------------------- database
NoRow == [id |-> 0, name |-> <<>>, team |-> "", created_at |-> 0]

RECURSIVE MaxOf(_, _)
MaxOf(tbl, col) ==
  IF tbl = <<>> THEN 0
  ELSE LET m == MaxOf(Tail(tbl), col)
       IN IF Head(tbl)[col] > m THEN Head(tbl)[col] ELSE m

\* Mutant of getUserByName: the WHERE clause is lost (SELECT * FROM users).
getUserByNameNoWhere(tbl, k) ==
  IF tbl = <<>> THEN [id |-> 0, name |-> <<>>, team |-> "", created_at |-> 0]
  ELSE Head(tbl)

\* SELECT * FROM users WHERE name = ?   (.get: the first row, or undefined)
getUserByName(tbl, k) ==
  LET rows == SelectSeq(tbl, LAMBDA r : r.name = k)
  IN IF rows = <<>> THEN NoRow ELSE Head(rows)

\* Mutant of createUser: name TEXT NOT NULL, without UNIQUE.
createUserNoUnique(tbl, nm, team, ts) ==
  [err |-> "",
   tbl |-> Append(tbl, [id |-> MaxOf(tbl, "id") + 1, name |-> nm,
                        team |-> team, created_at |-> ts])]

\* Mutant of createUser: INSERT OR IGNORE, a duplicate is dropped silently.
createUserOrIgnore(tbl, nm, team, ts) ==
  IF \E i \in 1..Len(tbl) : tbl[i].name = nm
  THEN [err |-> "", tbl |-> tbl]
  ELSE createUserNoUnique(tbl, nm, team, ts)

\* Mutant of createUser: INSERT OR REPLACE, a duplicate replaces the row.
createUserOrReplace(tbl, nm, team, ts) ==
  createUserNoUnique(SelectSeq(tbl, LAMBDA r : r.name # nm), nm, team, ts)

\* INSERT INTO users (name, team) VALUES (?, ?) under
\* id INTEGER PRIMARY KEY AUTOINCREMENT, name TEXT UNIQUE NOT NULL,
\* created_at DEFAULT CURRENT_TIMESTAMP (ts).
createUser(tbl, nm, team, ts) ==
  IF \E i \in 1..Len(tbl) : tbl[i].name = nm
  THEN [err |-> "SQLITE_CONSTRAINT_UNIQUE", tbl |-> tbl]
  ELSE [err |-> "",
        tbl |-> Append(tbl, [id |-> MaxOf(tbl, "id") + 1, name |-> nm,
                             team |-> team, created_at |-> ts])]

\* Mutant of getTeamStats: COUNT(DISTINCT team).
getTeamStatsDistinct(tbl) ==
  {[team |-> t, count |-> 1] : t \in {tbl[i].team : i \in 1..Len(tbl)}}

\* SELECT * FROM users ORDER BY created_at DESC: the result sequences SQL
\* allows.  Rows with equal created_at come in an order the statement does
\* not determine.
getAllUsers(tbl) ==
  LET n == Len(tbl)
      orders ==
        {p \in [1..n -> 1..n] :
           /\ \A i, j \in 1..n : p[i] = p[j] => i = j
           /\ \A i, j \in 1..n :
                i < j => tbl[p[i]].created_at >= tbl[p[j]].created_at}
  IN {[i \in 1..n |-> tbl[p[i]]] : p \in orders}

\* SELECT team, COUNT(*) as count FROM users GROUP BY team
getTeamStats(tbl) ==
  { [team |-> t,
     count |-> Cardinality({i \in 1..Len(tbl) : tbl[i].team = t})]
    : t \in {tbl[i].team : i \in 1..Len(tbl)} }

\* --------------------------------------------------------------- responses
NoStats == [t \in {} |-> 0]

NoRes ==
  [kind |-> "none", status |-> 0, success |-> FALSE, name |-> <<>>,
   team |-> "", color |-> "", emoji |-> "", isNewUser |-> FALSE,
   error |-> "", stats |-> NoStats, list |-> <<>>, url |-> ""]

\* Mutant of ErrorRes: res.json({success: false, error}) without
\* res.status(code).
ErrorResNoStatus(kind, code, msg) ==
  [NoRes EXCEPT !.kind = kind, !.status = 200, !.error = msg]

\* res.status(code).json({success: false, error}) / res.status(code).send
ErrorRes(kind, code, msg) ==
  [NoRes EXCEPT !.kind = kind, !.status = code, !.error = msg]

\* Mutant of AssignRes: isNewUser: true in both branches.
AssignResAlwaysNew(nm, team, isNew) ==
  [NoRes EXCEPT !.kind = "assign", !.status = 200, !.success = TRUE,
                !.name = nm, !.team = team,
                !.color = Lookup(TEAM_COLORS, team),
                !.emoji = Lookup(TEAM_EMOJIS, team),
                !.isNewUser = TRUE]

\* Mutant of AssignRes: a statement after createUser.run throws inside the
\* try block, so the inner catch answers 500 for a row that was inserted.
AssignResThrowsAfterInsert(nm, team, isNew) ==
  IF isNew
  THEN [NoRes EXCEPT !.kind = "assign", !.status = 500,
                     !.error = "Failed to save user"]
  ELSE [NoRes EXCEPT !.kind = "assign", !.status = 200, !.success = TRUE,
                     !.name = nm, !.team = team,
                     !.color = Lookup(TEAM_COLORS, team),
                     !.emoji = Lookup(TEAM_EMOJIS, team),
                     !.isNewUser = isNew]

\* res.json({success: true, name, team, color, emoji, isNewUser})
AssignRes(nm, team, isNew) ==
  [NoRes EXCEPT !.kind = "assign", !.status = 200, !.success = TRUE,
                !.name = nm, !.team = team,
                !.color = Lookup(TEAM_COLORS, team),
                !.emoji = Lookup(TEAM_EMOJIS, team),
                !.isNewUser = isNew]

\* Mutant of StatsOf: the zero-initialisation over TEAMS is missing.
StatsOfNoInit(rows) ==
  [t \in {r.team : r \in rows} |-> (CHOOSE r \in rows : r.team = t).count]

\* stats = {}; TEAMS.forEach(team => stats[team] = 0);
\* rows.forEach(row => stats[row.team] = row.count)
StatsOf(rows) ==
  [t \in TeamSet \cup {r.team : r \in rows} |->
     IF \E r \in rows : r.team = t
     THEN (CHOOSE r \in rows : r.team = t).count
     ELSE 0]

StatsRes(rows) ==
  [NoRes EXCEPT !.kind = "stats", !.status = 200, !.success = TRUE,
                !.stats = StatsOf(rows)]

\* res.send(html) of GET /admin: the table rows in result order and the
\* per-team boxes (teamCounts over TEAMS).  The page is HTML and has no
\* success field.
AdminRes(allUsers) ==
  [NoRes EXCEPT !.kind = "admin", !.status = 200,
                !.list = allUsers,
                !.stats =
                  [t \in TeamSet |->
                     Cardinality({i \in 1..Len(allUsers) :
                                    allUsers[i].team = t})]]

\* res.json({success: true, qrCode, url}) of GET /api/generate-qr; url is
\* the path of the assignment page, the image is opaque.
QrRes ==
  [NoRes EXCEPT !.kind = "qr", !.status = 200, !.success = TRUE,
                !.url = "/team"]

\* ------------------------------------------------------------------- state
VARIABLES
  users,       \* the users table, in rowid order
  pc,          \* per server: "idle", or "insert" (between SELECT and INSERT)
  name,        \* per server: req.body.name of the request being handled
  cleanName,   \* per server: name.trim()
  randomTeam,  \* per server: the team picked for a new user
  last,        \* the latest exchange: request body, response, the error
               \* logged from the INSERT, number of SQL statements run
  nreq,        \* number of requests received so far
  nres,        \* number of responses sent so far
  firstTeam    \* history: per key, the team of its first success response

vars ==
  <<users, pc, name, cleanName, randomTeam, last, nreq, nres, firstTeam>>

\* The values name.trim() can take, and the names of rows already stored.
Keys == {Trim(n) : n \in Names} \cup {<<"z">>}

NoInput == [type |-> "undefined", str |-> <<>>]

\* Everything but the table, at process start.
InitServers ==
  /\ pc = [s \in Servers |-> "idle"]
  /\ name = [s \in Servers |-> NoInput]
  /\ cleanName = [s \in Servers |-> <<>>]
  /\ randomTeam = [s \in Servers |-> ""]
  /\ last = [input |-> NoInput, res |-> NoRes, err |-> "", stmts |-> 0]
  /\ nreq = 0
  /\ nres = 0
  /\ firstTeam = [k \in Keys |-> ""]

\* CREATE TABLE IF NOT EXISTS users, on a fresh ./teams.db.
Init ==
  /\ users = <<>>
  /\ InitServers

\* CREATE TABLE IF NOT EXISTS users, on a ./teams.db that an earlier
\* deployment filled while TEAMS held another team ("Customize your teams
\* here!"): the table keeps its rows.
LegacyTables ==
  { <<>>,
    <<[id |-> 1, name |-> <<"a">>, team |-> "Purple", created_at |-> 0]>>,
    <<[id |-> 1, name |-> <<"z">>, team |-> "Purple", created_at |-> 0],
      [id |-> 2, name |-> <<"a">>, team |-> "Red", created_at |-> 0]>> }

InitDrift ==
  /\ users \in LegacyTables
  /\ InitServers

\* A request reaches an idle server.
Receive(s) ==
  /\ pc[s] = "idle"
  /\ nreq < MaxRequests
  /\ nreq' = nreq + 1

\* res.json / res.status(..).json answering the request with body `input`
\* and key k; err is what console.error logged from the INSERT, if anything,
\* and n the number of SQL statements the handler has run.
Respond(input, k, r, err, n) ==
  /\ last' = [input |-> input, res |-> r, err |-> err, stmts |-> n]
  /\ nres' = nres + 1
  /\ firstTeam' =
       IF r.kind = "assign" /\ r.success /\ firstTeam[k] = ""
       THEN [firstTeam EXCEPT ![k] = r.team]
       ELSE firstTeam

\* POST /api/assign-team, name missing, empty or blank: 400.
AssignInvalid(s, input) ==
  /\ Receive(s)
  /\ input.type # "number"
  /\ NameMissing(input)
  /\ Respond(input, <<>>, ErrorRes("assign", 400, "Name is required"), "", 0)
  /\ UNCHANGED <<users, pc, name, cleanName, randomTeam>>

\* POST /api/assign-team, name a truthy non-string: name.trim is not a
\* function; the TypeError is thrown before the try block and Express's
\* default error handler answers 500.
AssignTypeError(s, input) ==
  /\ Receive(s)
  /\ input.type = "number"
  /\ Respond(input, <<>>, ErrorRes("assign", 500, "TypeError"), "", 0)
  /\ UNCHANGED <<users, pc, name, cleanName, randomTeam>>

\* POST /api/assign-team, getUserByName.get throws: outer catch, 500.
AssignLookupError(s, input) ==
  /\ Receive(s)
  /\ input.type = "string" /\ ~NameMissing(input)
  /\ Respond(input, Trim(input.str),
             ErrorRes("assign", 500, "Database error"), "", 1)
  /\ UNCHANGED <<users, pc, name, cleanName, randomTeam>>

\* POST /api/assign-team, the user exists: return the stored team.
AssignExisting(s, input) ==
  /\ Receive(s)
  /\ input.type = "string" /\ ~NameMissing(input)
  /\ LET existingUser == getUserByName(users, Trim(input.str))
     IN /\ existingUser # NoRow
        /\ Respond(input, Trim(input.str),
                   AssignRes(existingUser.name, existingUser.team, FALSE), "", 1)
  /\ UNCHANGED <<users, pc, name, cleanName, randomTeam>>

\* POST /api/assign-team, the user is new: pick
\* TEAMS[Math.floor(Math.random() * TEAMS.length)]; the INSERT is next.
AssignNew(s, input) ==
  /\ Receive(s)
  /\ input.type = "string" /\ ~NameMissing(input)
  /\ getUserByName(users, Trim(input.str)) = NoRow
  /\ name' = [name EXCEPT ![s] = input]
  /\ cleanName' = [cleanName EXCEPT ![s] = Trim(input.str)]
  /\ \E i \in RandomIndexes :
       randomTeam' = [randomTeam EXCEPT ![s] = TeamAt(i)]
  /\ pc' = [pc EXCEPT ![s] = "insert"]
  /\ UNCHANGED <<users, last, nres, firstTeam>>

\* The handler returns: its locals are gone and the server is idle again.
Return(s) ==
  /\ pc' = [pc EXCEPT ![s] = "idle"]
  /\ name' = [name EXCEPT ![s] = NoInput]
  /\ cleanName' = [cleanName EXCEPT ![s] = <<>>]
  /\ randomTeam' = [randomTeam EXCEPT ![s] = ""]

\* createUser.run succeeds: 200 with isNewUser: true.  CURRENT_TIMESTAMP has
\* one-second resolution: the row is stamped with the second of the previous
\* insert or a later one.
InsertOk(s) ==
  /\ pc[s] = "insert"
  /\ \E d \in 0..1 :
       LET r == createUser(users, cleanName[s], randomTeam[s],
                           MaxOf(users, "created_at") + d)
       IN /\ r.err = ""
          /\ users' = r.tbl
  /\ Respond(name[s], cleanName[s],
             AssignRes(cleanName[s], randomTeam[s], TRUE), "", 2)
  /\ Return(s)
  /\ UNCHANGED nreq

\* createUser.run throws on the UNIQUE constraint: inner catch, 500.
InsertConflict(s) ==
  /\ pc[s] = "insert"
  /\ LET r == createUser(users, cleanName[s], randomTeam[s],
                         MaxOf(users, "created_at"))
     IN /\ r.err # ""
        /\ users' = r.tbl
        /\ Respond(name[s], cleanName[s],
                   ErrorRes("assign", 500, "Failed to save user"), r.err, 2)
  /\ Return(s)
  /\ UNCHANGED nreq

\* createUser.run throws on a storage fault: inner catch, 500.
InsertError(s) ==
  /\ pc[s] = "insert"
  /\ Respond(name[s], cleanName[s],
             ErrorRes("assign", 500, "Failed to save user"), "SQLITE_IOERR",
             2)
  /\ Return(s)
  /\ UNCHANGED <<users, nreq>>

\* GET /api/stats
GetStats(s) ==
  /\ Receive(s)
  /\ Respond(NoInput, <<>>, StatsRes(getTeamStats(users)), "", 1)
  /\ UNCHANGED <<users, pc, name, cleanName, randomTeam>>

\* GET /api/stats, getTeamStats.all throws: 500.
GetStatsError(s) ==
  /\ Receive(s)
  /\ Respond(NoInput, <<>>, ErrorRes("stats", 500, "Database error"), "", 1)
  /\ UNCHANGED <<users, pc, name, cleanName, randomTeam>>

\* GET /admin
GetAdmin(s) ==
  /\ Receive(s)
  /\ \E allUsers \in getAllUsers(users) :
       Respond(NoInput, <<>>, AdminRes(allUsers), "", 1)
  /\ UNCHANGED <<users, pc, name, cleanName, randomTeam>>

\* GET /admin, getAllUsers.all throws: 500.
GetAdminError(s) ==
  /\ Receive(s)
  /\ Respond(NoInput, <<>>,
             ErrorRes("admin", 500, "Error loading admin panel"), "", 1)
  /\ UNCHANGED <<users, pc, name, cleanName, randomTeam>>

\* GET /api/generate-qr
GenerateQr(s) ==
  /\ Receive(s)
  /\ Respond(NoInput, <<>>, QrRes, "", 0)
  /\ UNCHANGED <<users, pc, name, cleanName, randomTeam>>

\* GET /api/generate-qr, QRCode.toDataURL rejects: 500.
GenerateQrError(s) ==
  /\ Receive(s)
  /\ Respond(NoInput, <<>>,
             ErrorRes("qr", 500, "Failed to generate QR code"), "", 0)
  /\ UNCHANGED <<users, pc, name, cleanName, randomTeam>>

Next ==
  \/ \E s \in Servers, input \in Inputs : AssignInvalid(s, input)
  \/ \E s \in Servers, input \in Inputs : AssignTypeError(s, input)
  \/ \E s \in Servers, input \in Inputs : AssignLookupError(s, input)
  \/ \E s \in Servers, input \in Inputs : AssignExisting(s, input)
  \/ \E s \in Servers, input \in Inputs : AssignNew(s, input)
  \/ \E s \in Servers : InsertOk(s)
  \/ \E s \in Servers : InsertConflict(s)
  \/ \E s \in Servers : InsertError(s)
  \/ \E s \in Servers : GetStats(s)
  \/ \E s \in Servers : GetStatsError(s)
  \/ \E s \in Servers : GetAdmin(s)
  \/ \E s \in Servers : GetAdminError(s)
  \/ \E s \in Servers : GenerateQr(s)
  \/ \E s \in Servers : GenerateQrError(s)

Spec == Init /\ [][Next]_vars

SpecDrift == InitDrift /\ [][Next]_vars

\* ====================================================== properties
\* Definitions used to state the properties, independent of the handlers'.

\* s without its leading and trailing spaces.
Strip(s) ==
  LET idx == {i \in 1..Len(s) : s[i] # " "}
  IN IF idx = {} THEN <<>>
     ELSE SubSeq(s, CHOOSE i \in idx : \A j \in idx : i <= j,
                    CHOOSE i \in idx : \A j \in idx : i >= j)

\* The identity key of a request body that carries one.
KeyOf(input) == Strip(input.str)

HasKey(input) == input.type = "string" /\ Strip(input.str) # <<>>

\* The rows stored for key k.
RowsOf(k) == {i \in 1..Len(users) : users[i].name = k}

\* The latest response is a success of POST /api/assign-team.
AssignOk == last.res.kind = "assign" /\ last.res.success

\* A request is taken in by some server in this step.
Arrival == nreq' = nreq + 1

\* The handler of the request taken in answers within this step (it is not
\* left between its SELECT and its INSERT).
Answered == pc' = pc

\* The request taken in is a POST /api/assign-team.
ArrivalOfAssign ==
  Arrival /\ (Answered => last'.res.kind = "assign")

\* The body of the request taken in.
Taken ==
  IF Answered THEN last'.input
  ELSE name'[CHOOSE s \in Servers : pc'[s] # pc[s]]

\* C1. Idempotence of assign: once an assign call for a key has succeeded,
\* every assign call for that key that arrives later (whatever was called in
\* between, for this key or others) is answered in the same step with a
\* success carrying the team of that first success; the one exception is a
\* call whose SELECT fails with a storage error, which carries no team.
C1_Idempotence ==
  [][(/\ ArrivalOfAssign
       /\ HasKey(Taken)
       /\ firstTeam[KeyOf(Taken)] # ""
       /\ ~(Answered /\ last'.res.error = "Database error"))
      => /\ Answered
         /\ last'.res.success
         /\ last'.res.status = 200
         /\ last'.res.team = firstTeam[KeyOf(Taken)]]_vars

\* A repeated assign call was answered from the stored record while another
\* key was assigned as well.
C1_Witness ==
  /\ AssignOk
  /\ ~last.res.isNewUser
  /\ last.res.team = firstTeam[KeyOf(last.input)]
  /\ Len(users) = 2
  /\ nreq = 3

\* C2. In every reachable state the table holds at most one row per identity
\* key, also when assign calls for the same key run concurrently: of two
\* INSERTs for one key only one adds a row.
C2_OneRecordPerKey ==
  \A i, j \in 1..Len(users) : users[i].name = users[j].name => i = j

\* Two concurrent assign calls for one key both reached the INSERT; the second
\* hit the UNIQUE constraint and the table holds one row for the key.
C2_Witness ==
  /\ last.err = "SQLITE_CONSTRAINT_UNIQUE"
  /\ HasKey(last.input)
  /\ Cardinality(RowsOf(KeyOf(last.input))) = 1

\* C3. For concurrent first-time assign calls with the same key, every call
\* responds successfully with the same team: the call whose INSERT hits the
\* uniqueness conflict re-reads the record and returns the winner's team
\* with isNewUser = false, and the conflict is not surfaced as an error.
C3_ConflictRecovered ==
  last.err = "SQLITE_CONSTRAINT_UNIQUE"
    => /\ last.res.success
       /\ last.res.status = 200
       /\ ~last.res.isNewUser
       /\ \E i \in RowsOf(KeyOf(last.input)) : users[i].team = last.res.team

\* C4. Under any interleaving of assign calls, every successful response for
\* a key carries the team of the first successful response for that key (so
\* no two successes for one key differ), and carries the team stored in the
\* key's record.
C4_OneTeamPerKey ==
  AssignOk
    => /\ HasKey(last.input)
       /\ last.res.team = firstTeam[KeyOf(last.input)]
       /\ RowsOf(KeyOf(last.input)) # {}
       /\ \A i \in RowsOf(KeyOf(last.input)) : users[i].team = last.res.team

\* A call succeeded for a key while another call for the same key, which
\* picked a different team, is between its SELECT and its INSERT.
C4_Witness ==
  /\ AssignOk
  /\ \E s \in Servers :
       /\ pc[s] = "insert"
       /\ cleanName[s] = KeyOf(last.input)
       /\ randomTeam[s] # last.res.team

\* A request body with no name, or a name of spaces only.
Blank(input) ==
  \/ input.type = "undefined"
  \/ input.type = "string" /\ \A i \in 1..Len(input.str) : input.str[i] = " "

\* C5. An assign call whose name is missing, empty or whitespace-only is
\* answered 400 with success = false in the step that takes it in, before any
\* SQL statement is run, and leaves the table as it was.
C5_InvalidInputRejected ==
  [][(ArrivalOfAssign /\ Blank(Taken))
      => /\ Answered
         /\ last'.res.status = 400
         /\ ~last'.res.success
         /\ last'.res.error = "Name is required"
         /\ last'.stmts = 0
         /\ users' = users]_vars

\* A whitespace-only name was rejected on a store that holds a record.
C5_Witness ==
  /\ last.input = [type |-> "string", str |-> <<" ">>]
  /\ last.res.status = 400
  /\ last.stmts = 0
  /\ users # <<>>

\* C6. Trim-equivalence: stored keys carry no surrounding whitespace and no
\* two records have keys equal after trimming, and a successful assign
\* resolves to the record whose key is exactly the name without its leading
\* and trailing whitespace (assign(k) and a later assign(k padded) give the
\* same record and team); a key differing in letter case is another key.
C6_TrimEquivalence ==
  /\ \A i \in 1..Len(users) :
       users[i].name # <<>> /\ users[i].name = Strip(users[i].name)
  /\ \A i, j \in 1..Len(users) :
       Strip(users[i].name) = Strip(users[j].name) => i = j
  /\ AssignOk
       => /\ last.res.name = KeyOf(last.input)
          /\ \E i \in 1..Len(users) :
               /\ users[i].name = KeyOf(last.input)
               /\ users[i].team = last.res.team

\* assign(" a ") was answered from the record of "a", while "A" holds a
\* record of its own with another team.
C6_Witness ==
  /\ AssignOk
  /\ last.input.str = <<" ", "a", " ">>
  /\ ~last.res.isNewUser
  /\ last.res.name = <<"a">>
  /\ Len(users) = 2
  /\ \E i \in 1..Len(users) :
       users[i].name = <<"A">> /\ users[i].team # last.res.team

RECURSIVE SumOver(_, _)
SumOver(f, S) ==
  IF S = {} THEN 0
  ELSE LET x == CHOOSE y \in S : TRUE
       IN f[x] + SumOver(f, S \ {x})

\* The sum of all counts of a stats mapping.
SumStats(stats) == SumOver(stats, DOMAIN stats)

\* The keys that have been assigned successfully.
AssignedKeys == {k \in DOMAIN firstTeam : firstTeam[k] # ""}

\* C7. Conservation: on a store that started empty, the counts returned by
\* statistics() sum to K, the number of distinct keys assigned successfully
\* so far, whatever repeated calls were made in between.
C7_Conservation ==
  (last.res.kind = "stats" /\ last.res.success)
    => SumStats(last.res.stats) = Cardinality(AssignedKeys)

\* Statistics after two keys were assigned to the same team: one bucket of 2.
C7_Witness ==
  /\ last.res.kind = "stats" /\ last.res.success
  /\ Cardinality(AssignedKeys) = 2
  /\ \E t \in DOMAIN last.res.stats : last.res.stats[t] = 2

C9_Irreversible ==
  [][\A i \in 1..Len(users) :
       /\ i <= Len(users')
       /\ users'[i] = users[i]]_vars

\* The first record still holds the team of its first response after a
\* concurrent INSERT for its key failed and another key was assigned.
C9_Witness ==
  /\ Len(users) = 2
  /\ nreq = 3
  /\ last.err = "SQLITE_CONSTRAINT_UNIQUE"
  /\ users[1].team = firstTeam[users[1].name]
  /\ KeyOf(last.input) = users[1].name

\* C10. An assign call that resolves to a stored team missing from the
\* configuration fails (UnknownTeam, a server error): no success response
\* carries an unconfigured team or undefined color or emoji.
C10_UnknownTeamFails ==
  AssignOk
    => /\ last.res.team \in TeamSet
       /\ last.res.color # "undefined"
       /\ last.res.emoji # "undefined"

\* C11. A successful assign response has isNewUser = true exactly when the
\* call itself created the key's record: then its handler ran the INSERT and
\* the key's record is the newest row of the table; a call answered from an
\* existing record ran the SELECT only and responds isNewUser = false.
C11_IsNewIffCreated ==
  AssignOk
    => /\ last.res.isNewUser
            <=> (last.stmts = 2 /\ users # <<>>
                 /\ users[Len(users)].name = KeyOf(last.input))
       /\ ~last.res.isNewUser <=> last.stmts = 1

\* The first call for a key answered isNewUser = true and a later call for
\* the same key was answered isNewUser = false.
C11_Witness ==
  /\ AssignOk
  /\ ~last.res.isNewUser
  /\ last.stmts = 1
  /\ Len(users) = 1
  /\ nreq = 2
  /\ firstTeam[KeyOf(last.input)] = last.res.team

\* A response is sent in this step.
Responded == nres' = nres + 1

\* C12. No partial failure: a step of an assign request that sends an error
\* response (400 or 500) leaves the table exactly as it was, a step that
\* sends no response (between SELECT and INSERT) writes nothing, and a step
\* that writes adds exactly one row and sends that request's success; so a
\* request performs at most one insert, and only when it succeeds.
C12_NoPartialFailure ==
  [][/\ (Responded /\ last'.res.kind = "assign" /\ ~last'.res.success)
         => (users' = users /\ last'.res.status \in {400, 500})
     /\ ~Responded => users' = users
     /\ users' # users
         => /\ Len(users') = Len(users) + 1
            /\ SubSeq(users', 1, Len(users)) = users
            /\ Responded
            /\ last'.res.kind = "assign"
            /\ last'.res.success
            /\ last'.stmts = 2]_vars

\* An assign call was answered 500 after its INSERT failed, on a table that
\* holds the record of the call that won.
C12_Witness ==
  /\ last.res.kind = "assign"
  /\ last.res.status = 500
  /\ last.stmts = 2
  /\ Len(users) = 1
  /\ nres = 2

\* C13. Every record created by assign has a configured team: starting from
\* an empty store, the team of every stored record, and the team a handler
\* is about to insert, is one of the configured team names.
C13_StoredTeamsConfigured ==
  /\ \A i \in 1..Len(users) :
       users[i].team \in {"Red", "Blue", "Green", "Yellow"}
  /\ \A s \in Servers :
       pc[s] = "insert" => randomTeam[s] \in {"Red", "Blue", "Green", "Yellow"}

\* Two records were created, one with the first element of TEAMS and one
\* with the last.
C13_Witness ==
  /\ Len(users) = 2
  /\ users[1].team = "Red"
  /\ users[2].team = "Yellow"

\* C14. The admin listing returns every stored record exactly once, most
\* recently created first: of any two records the one with the larger id
\* comes first, also when both were created in the same second.
C14_NewestFirst ==
  (last.res.kind = "admin" /\ last.res.status = 200)
    => /\ Len(last.res.list) = Len(users)
       /\ \A i \in 1..Len(users) :
            Cardinality({p \in 1..Len(last.res.list) :
                           last.res.list[p] = users[i]}) = 1
       /\ \A p, q \in 1..Len(last.res.list) :
            p < q => last.res.list[p].id > last.res.list[q].id

\* The handlers that are between their SELECT and their INSERT.
InFlight == {s \in Servers : pc[s] = "insert"}

\* C15. Every assign request ends with exactly one response: each request
\* received has been answered once or is in a handler that has sent nothing
\* yet and can complete, and an assign response is 200 with success, 400
\* without (exactly for a missing or blank name), or 500 without.
C15_OneResponse ==
  /\ nreq = nres + Cardinality(InFlight)
  /\ \A s \in InFlight : ENABLED (InsertOk(s) \/ InsertConflict(s))
  /\ last.res.kind = "assign"
       => /\ \/ last.res.status = 200 /\ last.res.success
             \/ last.res.status = 400 /\ ~last.res.success
             \/ last.res.status = 500 /\ ~last.res.success
          /\ last.res.status = 400 <=> Blank(last.input)

\* Three requests were received and all three answered, the last one with
\* 500 after its INSERT failed on a storage fault.
C15_Witness ==
  /\ nreq = 3
  /\ nres = 3
  /\ InFlight = {}
  /\ last.res.kind = "assign"
  /\ last.res.status = 500
  /\ last.err = "SQLITE_IOERR"

\* C16. The read operations leave the store unchanged: a step that answers
\* statistics, the admin listing, QR generation or an assign call served
\* from an existing record, and any step that takes a request in, changes
\* no record; the table changes only by the INSERT of an assign handler
\* whose key has no record yet, which appends that one record.
C16_ReadsLeaveStore ==
  [][/\ Arrival => users' = users
     /\ (/\ Responded
         /\ \/ last'.res.kind \in {"stats", "admin", "qr"}
            \/ last'.res.kind = "assign" /\ ~last'.res.isNewUser)
        => users' = users
     /\ users' # users
        => \E s \in Servers :
             /\ pc[s] = "insert" /\ pc'[s] = "idle"
             /\ RowsOf(cleanName[s]) = {}
             /\ Len(users') = Len(users) + 1
             /\ SubSeq(users', 1, Len(users)) = users
             /\ users'[Len(users')].name = cleanName[s]
             /\ users'[Len(users')].team = randomTeam[s]]_vars

\* QR generation was answered on a store holding a record, as the third
\* response after the record was created.
C16_Witness ==
  /\ last.res.kind = "qr"
  /\ last.res.success
  /\ Len(users) = 1
  /\ nres = 3
  /\ InFlight = {}

====
